---- MODULE Spec2Model ----
(***************************************************************************)
(* Model of the oid4vp presentation-exchange core:                         *)
(*   src/src/json_schema_validation.rs      SchemaValidator                *)
(*   src/src/core/presentation_definition.rs PresentationDefinition        *)
(*                                                                         *)
(* Conventions                                                             *)
(*   Option<T>   None is <<>>, Some(x) is <<x>>.                           *)
(*   String      a sequence of one-character strings.                      *)
(*   f64         a multiple of 1/2, held as its number of halves           *)
(*               (2.5 is 5, -1.0 is -2).                                   *)
(*   i64         a signed integer of I64Bits bits.                         *)
(*   Result<()>  [tag, err]: tag is "Ok", "Err" or "Panic" (the call does  *)
(*               not return); err is the anyhow context chain, outermost   *)
(*               context first.                                            *)
(***************************************************************************)
EXTENDS Integers, Sequences, FiniteSets, TLC

VARIABLES validator, value, result, definition, response, outcome,
          built, comparison

\* built: what the PresentationDefinition builder calls were given, the id
\* passed to new and the descriptors passed to new and
\* add_input_descriptors, in call order.
\* comparison: the validator `validator` was compared with by ==, and the
\* answer.
vars == <<validator, value, result, definition, response, outcome,
          built, comparison>>

(***************************************************************************)
(* Bounds of the model.                                                    *)
(***************************************************************************)
\* longest string / array value, largest min_length / max_length
MaxLen == 2
\* longest pattern text enumerated exhaustively
MaxPatLen == 2
\* width of the modelled i64 (the program's is 64)
I64Bits == 4
\* longest `required` list
MaxRequired == 2

I64_MAX == 2 ^ (I64Bits - 1) - 1
I64_MIN == -(2 ^ (I64Bits - 1))

None == <<>>
Some(x) == <<x>>
is_some(o) == o /= <<>>
unwrap(o) == o[1]

RECURSIVE SeqsUpTo(_, _)
SeqsUpTo(S, n) ==
  IF n = 0 THEN {<<>>}
  ELSE LET shorter == SeqsUpTo(S, n - 1)
       IN  shorter \cup {Append(q, c) : q \in shorter, c \in S}

(***************************************************************************)
(* serde_json::Value                                                       *)
(***************************************************************************)
JNull == [kind |-> "null", b |-> FALSE, i |-> 0, h |-> 0, s |-> <<>>,
          arr |-> <<>>, obj |-> {}]
JBool(b) == [JNull EXCEPT !.kind = "bool", !.b = b]
\* Number::PosInt / Number::NegInt
JInt(i) == [JNull EXCEPT !.kind = "int", !.i = i]
\* Number::Float, h halves
JFloat(h) == [JNull EXCEPT !.kind = "float", !.h = h]
JStr(s) == [JNull EXCEPT !.kind = "str", !.s = s]
JArr(a) == [JNull EXCEPT !.kind = "arr", !.arr = a]
\* a map: a set of <<key, value>> pairs, at most one per key
JObj(o) == [JNull EXCEPT !.kind = "obj", !.obj = o]

\* Value::as_str
as_str(v) == IF v.kind = "str" THEN Some(v.s) ELSE None
\* Value::as_f64: every number converts (at the modelled width exactly; the
\* program's conversion rounds integers beyond 2^53)
as_f64(v) ==
  IF v.kind = "int" THEN Some(2 * v.i)
  ELSE IF v.kind = "float" THEN Some(v.h)
  ELSE None
\* Value::as_i64: an integer within i64; a float never converts, nor does a
\* u64 above i64::MAX
as_i64(v) ==
  IF v.kind = "int" /\ v.i >= I64_MIN /\ v.i <= I64_MAX THEN Some(v.i) ELSE None
is_boolean(v) == v.kind = "bool"
as_array(v) == IF v.kind = "arr" THEN Some(v.arr) ELSE None
as_object(v) == IF v.kind = "obj" THEN Some(v.obj) ELSE None
contains_key(obj, k) == \E p \in obj : p[1] = k
get(obj, k) ==
  IF contains_key(obj, k) THEN Some((CHOOSE p \in obj : p[1] = k)[2]) ELSE None

(***************************************************************************)
(* Result<()>                                                              *)
(***************************************************************************)
Crumb(msg, idx, name) == [msg |-> msg, idx |-> idx, name |-> name]
Ok == [tag |-> "Ok", err |-> <<>>]
Err(msg) == [tag |-> "Err", err |-> <<Crumb(msg, -1, "")>>]
Panic == [tag |-> "Panic", err |-> <<>>]
NoResult == [tag |-> "None", err |-> <<>>]
\* anyhow::Context::context on a Result
context(r, crumb) ==
  IF r.tag = "Err" THEN [r EXCEPT !.err = <<crumb>> \o @] ELSE r

(***************************************************************************)
(* regex::Regex over the characters a b . *                                *)
(***************************************************************************)
Chars == {"a", "b"}
PatChars == Chars \cup {".", "*"}

\* Regex::new: a repetition operator needs an expression before it
Regex_new_ok(p) == p = <<>> \/ p[1] /= "*"

CharMatch(c, x) == c = "." \/ c = x

RECURSIVE SkipStars(_, _)
SkipStars(p, i) ==
  IF i <= Len(p) /\ p[i] = "*" THEN SkipStars(p, i + 1) ELSE i

\* p[i..] matches a prefix of t[j..]
RECURSIVE MatchHere(_, _, _, _)
MatchHere(p, i, t, j) ==
  IF i > Len(p) THEN TRUE
  ELSE IF i < Len(p) /\ p[i + 1] = "*"
       THEN \E m \in 0..(Len(t) + 1 - j) :
              /\ \A k \in j..(j + m - 1) : CharMatch(p[i], t[k])
              /\ MatchHere(p, SkipStars(p, i + 1), t, j + m)
       ELSE /\ j <= Len(t)
            /\ CharMatch(p[i], t[j])
            /\ MatchHere(p, i + 1, t, j + 1)

\* Regex::is_match: an unanchored search
is_match(p, t) == \E j \in 1..(Len(t) + 1) : MatchHere(p, 1, t, j)

(***************************************************************************)
(* SchemaValidator                                                         *)
(***************************************************************************)
SchemaType == {"String", "Number", "Integer", "Boolean", "Array", "Object"}

new(schema_type) ==
  [schema_type |-> schema_type,
   min_length |-> None,
   max_length |-> None,
   pattern |-> None,
   minimum |-> None,
   maximum |-> None,
   exclusive_minimum |-> None,
   exclusive_maximum |-> None,
   multiple_of |-> None,
   required |-> <<>>,
   properties |-> {},
   items |-> None]

\* validate_string with the length bounds taken inclusive (< and > where
\* the program has <= and >=)
validate_string_inclusive(self, v) ==
  LET s == as_str(v) IN
  IF ~is_some(s) THEN Err("Expected a string")
  ELSE IF is_some(self.min_length) /\ Len(unwrap(s)) < unwrap(self.min_length)
  THEN Err("String length is less than minimum")
  ELSE IF is_some(self.max_length) /\ Len(unwrap(s)) > unwrap(self.max_length)
  THEN Err("String length is greater than maximum")
  ELSE IF is_some(self.pattern) /\ ~Regex_new_ok(unwrap(self.pattern))
  THEN Err("Invalid regex pattern")
  ELSE IF is_some(self.pattern)
          /\ ~is_match(unwrap(self.pattern), unwrap(self.pattern))
  THEN Err("String does not match pattern")
  ELSE Ok

validate_string(self, v) ==
  LET s == as_str(v) IN
  IF ~is_some(s) THEN Err("Expected a string")
  ELSE IF is_some(self.min_length) /\ Len(unwrap(s)) <= unwrap(self.min_length)
  THEN Err("String length is less than minimum")
  ELSE IF is_some(self.max_length) /\ Len(unwrap(s)) >= unwrap(self.max_length)
  THEN Err("String length is greater than maximum")
  ELSE IF is_some(self.pattern) /\ ~Regex_new_ok(unwrap(self.pattern))
  THEN Err("Invalid regex pattern")
  ELSE IF is_some(self.pattern)
          /\ ~is_match(unwrap(self.pattern), unwrap(self.pattern))
  THEN Err("String does not match pattern")
  ELSE Ok

validate_boolean(self, v) ==
  IF ~is_boolean(v) THEN Err("Expected a boolean") ELSE Ok

(***************************************************************************)
(* f64 and i64 arithmetic                                                  *)
(***************************************************************************)
Abs(a) == IF a < 0 THEN -a ELSE a

\* Rust's `x as i64` on an f64: truncates toward zero and saturates
f64_as_i64(h) ==
  LET t == IF h >= 0 THEN h \div 2 ELSE -((-h) \div 2) IN
  IF t > I64_MAX THEN I64_MAX ELSE IF t < I64_MIN THEN I64_MIN ELSE t

\* remainder of a truncating division, d /= 0: the sign is the dividend's
TruncRem(n, d) ==
  IF n >= 0 THEN n % Abs(d) ELSE -((-n) % Abs(d))

\* f64 `n % m != 0.0`: the remainder by 0.0 is NaN, and NaN != 0.0
f64_rem_nonzero(n, m) == IF m = 0 THEN TRUE ELSE TruncRem(n, m) /= 0

\* i64 `n % d` panics on d = 0 and on i64::MIN % -1
i64_rem_panics(n, d) == d = 0 \/ (n = I64_MIN /\ d = -1)

validate_number(self, v) ==
  LET n == as_f64(v) IN
  IF ~is_some(n) THEN Err("Expected a number")
  ELSE IF is_some(self.minimum) /\ unwrap(n) <= unwrap(self.minimum)
  THEN Err("Number is less than minimum")
  ELSE IF is_some(self.maximum) /\ unwrap(n) >= unwrap(self.maximum)
  THEN Err("Number is greater than maximum")
  ELSE IF is_some(self.exclusive_minimum)
          /\ unwrap(n) < unwrap(self.exclusive_minimum)
  THEN Err("Number is less than or equal to exclusive minimum")
  ELSE IF is_some(self.exclusive_maximum)
          /\ unwrap(n) > unwrap(self.exclusive_maximum)
  THEN Err("Number is greater than or equal to exclusive maximum")
  ELSE IF is_some(self.multiple_of)
          /\ f64_rem_nonzero(unwrap(n), unwrap(self.multiple_of))
  THEN Err("Number is not a multiple of")
  ELSE Ok

validate_integer(self, v) ==
  LET n == as_i64(v) IN
  IF ~is_some(n) THEN Err("Expected an integer")
  ELSE IF is_some(self.minimum)
          /\ unwrap(n) <= f64_as_i64(unwrap(self.minimum))
  THEN Err("Integer is less than minimum")
  ELSE IF is_some(self.maximum)
          /\ unwrap(n) >= f64_as_i64(unwrap(self.maximum))
  THEN Err("Integer is greater than maximum")
  ELSE IF is_some(self.exclusive_minimum)
          /\ unwrap(n) < f64_as_i64(unwrap(self.exclusive_minimum))
  THEN Err("Integer is less than or equal to exclusive minimum")
  ELSE IF is_some(self.exclusive_maximum)
          /\ unwrap(n) > f64_as_i64(unwrap(self.exclusive_maximum))
  THEN Err("Integer is greater than or equal to exclusive maximum")
  ELSE IF is_some(self.multiple_of)
  THEN LET d == f64_as_i64(unwrap(self.multiple_of)) IN
       IF i64_rem_panics(unwrap(n), d) THEN Panic
       ELSE IF TruncRem(unwrap(n), d) /= 0
       THEN Err("Integer is not a multiple of")
       ELSE Ok
  ELSE Ok

(***************************************************************************)
(* Array, Object and the dispatch.  `ord` lists the property names in the  *)
(* order the HashMap `properties` yields them, which the program does not  *)
(* fix.                                                                    *)
(***************************************************************************)
RECURSIVE validate(_, _, _)

\* the loop `for (index, item) in arr.iter().enumerate()`, from item k on
RECURSIVE validate_items(_, _, _, _)
validate_items(item_validator, arr, k, ord) ==
  IF k > Len(arr) THEN Ok
  ELSE LET r == context(validate(item_validator, arr[k], ord),
                        Crumb("Error in array item", k - 1, ""))
       IN  IF r.tag /= "Ok" THEN r
           ELSE validate_items(item_validator, arr, k + 1, ord)

validate_array(self, v, ord) ==
  LET arr == as_array(v) IN
  IF ~is_some(arr) THEN Err("Expected an array")
  ELSE IF is_some(self.min_length) /\ Len(unwrap(arr)) < unwrap(self.min_length)
  THEN Err("Array length is less than minimum")
  ELSE IF is_some(self.max_length) /\ Len(unwrap(arr)) > unwrap(self.max_length)
  THEN Err("Array length is greater than maximum")
  ELSE IF is_some(self.items)
  THEN validate_items(unwrap(self.items), unwrap(arr), 1, ord)
  ELSE Ok

\* the loop `for (prop_name, prop_validator) in &self.properties`, from the
\* k-th name of ord on
RECURSIVE validate_properties(_, _, _, _)
validate_properties(properties, obj, k, ord) ==
  IF k > Len(ord) THEN Ok
  ELSE LET prop_validator == get(properties, ord[k])
           prop_value == get(obj, ord[k])
       IN  IF is_some(prop_validator) /\ is_some(prop_value)
           THEN LET r == context(validate(unwrap(prop_validator),
                                          unwrap(prop_value), ord),
                                 Crumb("Error in property", -1, ord[k]))
                IN  IF r.tag /= "Ok" THEN r
                    ELSE validate_properties(properties, obj, k + 1, ord)
           ELSE validate_properties(properties, obj, k + 1, ord)

\* validate_object without the loop over `required`
validate_object_no_required(self, v, ord) ==
  LET obj == as_object(v) IN
  IF ~is_some(obj) THEN Err("Expected an object")
  ELSE validate_properties(self.properties, unwrap(obj), 1, ord)

validate_object(self, v, ord) ==
  LET obj == as_object(v) IN
  IF ~is_some(obj) THEN Err("Expected an object")
  ELSE IF \E k \in 1..Len(self.required) :
            ~contains_key(unwrap(obj), self.required[k])
  THEN LET k == CHOOSE k \in 1..Len(self.required) :
                  /\ ~contains_key(unwrap(obj), self.required[k])
                  /\ \A j \in 1..(k - 1) :
                       contains_key(unwrap(obj), self.required[j])
       IN  [tag |-> "Err",
            err |-> <<Crumb("Missing required property", -1, self.required[k])>>]
  ELSE validate_properties(self.properties, unwrap(obj), 1, ord)

validate(self, v, ord) ==
  CASE self.schema_type = "String" -> validate_string(self, v)
    [] self.schema_type = "Number" -> validate_number(self, v)
    [] self.schema_type = "Integer" -> validate_integer(self, v)
    [] self.schema_type = "Boolean" -> validate_boolean(self, v)
    [] self.schema_type = "Array" -> validate_array(self, v, ord)
    [] self.schema_type = "Object" -> validate_object(self, v, ord)

(***************************************************************************)
(* impl PartialEq for SchemaValidator                                      *)
(***************************************************************************)
RECURSIVE eq(_, _)

\* HashMap<String, Box<SchemaValidator>> ==: the same keys, bound to equal
\* validators
properties_eq(a, b) ==
  /\ {q[1] : q \in a} = {q[1] : q \in b}
  /\ \A q \in a : \A r \in b : q[1] = r[1] => eq(q[2], r[2])

\* Option<Box<SchemaValidator>> ==
items_eq(a, b) ==
  IF is_some(a) /\ is_some(b) THEN eq(unwrap(a), unwrap(b))
  ELSE is_some(a) = is_some(b)

eq(self, other) ==
  /\ self.schema_type = other.schema_type
  /\ self.min_length = other.min_length
  /\ self.max_length = other.max_length
  /\ self.pattern = other.pattern
  /\ self.minimum = other.minimum
  /\ self.maximum = other.maximum
  /\ self.required = other.required
  /\ properties_eq(self.properties, other.properties)
  /\ items_eq(self.items, other.items)

(***************************************************************************)
(* PresentationDefinition                                                  *)
(***************************************************************************)
\* Default::default()
pd_default ==
  [id |-> "", input_descriptors |-> <<>>, name |-> None, purpose |-> None,
   format |-> None]

pd_new(id, input_descriptor) ==
  [pd_default EXCEPT !.id = id, !.input_descriptors = <<input_descriptor>>]

\* ssi_claims::jwt::decode_unverified: the token either decodes to a
\* presentation or the call fails
decode_unverified(jwt) ==
  IF jwt = "garbage" THEN None ELSE Some(jwt)

\* The presentations that tokens decode to, each with the pairs
\* <<input descriptor id, locator of the descriptor-map entry>> for which
\* InputDescriptor::validate_verifiable_presentation succeeds.
Satisfied(vp) ==
  CASE vp = "vp_all" -> {<<"d1", "$">>, <<"d2", "$">>}
    [] vp = "vp_d1" -> {<<"d1", "$">>, <<"d1", "$.vc">>}
    [] OTHER -> {}

\* the call input_descriptor.validate_verifiable_presentation(&vp, descriptor)
validate_verifiable_presentation(input_descriptor, vp, descriptor) ==
  <<input_descriptor.id, descriptor.path>> \in Satisfied(vp)

\* HashMap::insert
insert(m, k, v) == [x \in DOMAIN m \cup {k} |-> IF x = k THEN v ELSE m[x]]

\* collect keeping the first entry of an id instead of the last
\* (entry(id).or_insert(d) for insert(id, d))
RECURSIVE collect_first_wins(_, _)
collect_first_wins(entries, k) ==
  IF k = 0 THEN [x \in {} |-> x]
  ELSE LET m == collect_first_wins(entries, k - 1)
       IN  IF entries[k].id \in DOMAIN m THEN m
           ELSE insert(m, entries[k].id, entries[k])

\* descriptor_map().iter().map(|d| (d.id, d)).collect::<HashMap<_, _>>(),
\* for the first k entries
RECURSIVE collect(_, _)
collect(entries, k) ==
  IF k = 0 THEN [x \in {} |-> x]
  ELSE insert(collect(entries, k - 1), entries[k].id, entries[k])

AuthOk(lookups, calls) ==
  [tag |-> "Ok", err |-> "", lookups |-> lookups, calls |-> calls]
AuthErr(msg, lookups, calls) ==
  [tag |-> "Err", err |-> msg, lookups |-> lookups, calls |-> calls]
NoOutcome == [tag |-> "None", err |-> "", lookups |-> <<>>, calls |-> <<>>]

\* the descriptor loop with a descriptor that has no entry skipped
\* (`None => continue`)
RECURSIVE validate_input_descriptors_skip(_, _, _, _, _, _)
validate_input_descriptors_skip(self, vp, descriptor_map, k, lookups, calls) ==
  IF k > Len(self.input_descriptors) THEN AuthOk(lookups, calls)
  ELSE LET input_descriptor == self.input_descriptors[k]
           looked == Append(lookups, input_descriptor.id)
       IN  IF input_descriptor.id \notin DOMAIN descriptor_map
           THEN validate_input_descriptors_skip(self, vp, descriptor_map,
                                                k + 1, looked, calls)
           ELSE LET descriptor == descriptor_map[input_descriptor.id]
                    called == Append(calls, <<input_descriptor.id, descriptor>>)
                IN  IF ~validate_verifiable_presentation(input_descriptor, vp,
                                                         descriptor)
                    THEN AuthErr("Input Descriptor Validation Failed.",
                                 looked, called)
                    ELSE validate_input_descriptors_skip(self, vp, descriptor_map,
                                                         k + 1, looked, called)

\* the loop `for input_descriptor in self.input_descriptors().iter()`, from
\* descriptor k on; lookups and calls record the descriptor_map.get lookups
\* and the validate_verifiable_presentation calls made so far
RECURSIVE validate_input_descriptors(_, _, _, _, _, _)
validate_input_descriptors(self, vp, descriptor_map, k, lookups, calls) ==
  IF k > Len(self.input_descriptors) THEN AuthOk(lookups, calls)
  ELSE LET input_descriptor == self.input_descriptors[k]
           looked == Append(lookups, input_descriptor.id)
       IN  IF input_descriptor.id \notin DOMAIN descriptor_map
           THEN AuthErr("Input Descriptor ID not found in Descriptor Map.",
                        looked, calls)
           ELSE LET descriptor == descriptor_map[input_descriptor.id]
                    called == Append(calls, <<input_descriptor.id, descriptor>>)
                IN  IF ~validate_verifiable_presentation(input_descriptor, vp,
                                                         descriptor)
                    THEN AuthErr("Input Descriptor Validation Failed.",
                                 looked, called)
                    ELSE validate_input_descriptors(self, vp, descriptor_map,
                                                    k + 1, looked, called)

\* validate_authorization_response with the Jwt arm left empty, so that it
\* falls through to the final Ok(())
validate_authorization_response_jwt_ok(self, auth_response) ==
  IF auth_response.variant = "Jwt"
  THEN AuthOk(<<>>, <<>>)
  ELSE LET verifiable_presentation == decode_unverified(auth_response.vp_token)
       IN  IF ~is_some(verifiable_presentation)
           THEN AuthErr("decode_unverified", <<>>, <<>>)
           ELSE IF auth_response.definition_id /= self.id
           THEN AuthErr("Presentation Definition ID does not match the Presentation Submission.",
                        <<>>, <<>>)
           ELSE validate_input_descriptors(
                  self, unwrap(verifiable_presentation),
                  collect(auth_response.descriptor_map,
                          Len(auth_response.descriptor_map)),
                  1, <<>>, <<>>)

\* validate_authorization_response with the definition id compared after
\* the descriptor loop instead of before it
validate_authorization_response_late_id(self, auth_response) ==
  IF auth_response.variant = "Jwt"
  THEN AuthErr("Authorization Response Presentation Definition Validation Not Implemented.",
               <<>>, <<>>)
  ELSE LET verifiable_presentation == decode_unverified(auth_response.vp_token)
       IN  IF ~is_some(verifiable_presentation)
           THEN AuthErr("decode_unverified", <<>>, <<>>)
           ELSE LET r == validate_input_descriptors(
                           self, unwrap(verifiable_presentation),
                           collect(auth_response.descriptor_map,
                                   Len(auth_response.descriptor_map)),
                           1, <<>>, <<>>)
                IN  IF r.tag = "Ok" /\ auth_response.definition_id /= self.id
                    THEN AuthErr("Presentation Definition ID does not match the Presentation Submission.",
                                 r.lookups, r.calls)
                    ELSE r

validate_authorization_response(self, auth_response) ==
  IF auth_response.variant = "Jwt"
  THEN AuthErr("Authorization Response Presentation Definition Validation Not Implemented.",
               <<>>, <<>>)
  ELSE LET verifiable_presentation == decode_unverified(auth_response.vp_token)
       IN  IF ~is_some(verifiable_presentation)
           THEN AuthErr("decode_unverified", <<>>, <<>>)
           ELSE IF auth_response.definition_id /= self.id
           THEN AuthErr("Presentation Definition ID does not match the Presentation Submission.",
                        <<>>, <<>>)
           ELSE validate_input_descriptors(
                  self, unwrap(verifiable_presentation),
                  collect(auth_response.descriptor_map,
                          Len(auth_response.descriptor_map)),
                  1, <<>>, <<>>)

(***************************************************************************)
(* Inputs                                                                  *)
(***************************************************************************)
Lengths == 0..MaxLen
\* every short pattern text, and one valid pattern that does not match its
\* own text
Patterns == SeqsUpTo(PatChars, MaxPatLen) \cup {<<"b", "a", "*", "b">>}
\* -2.5, 2.0, 2.5
F64Bounds == {-5, 4, 5}
\* 0.0, 0.5, -1.0, 2.0
MultipleOfs == {0, 1, -2, 4}
Names == {"a", "b"}
\* the orders in which a HashMap may yield the property names
Orders == {<<"a", "b">>, <<"b", "a">>}

\* validators without children, used as item and property validators
LeafSchemas ==
  {new("Boolean"),
   [new("String") EXCEPT !.min_length = Some(0)],
   [new("Integer") EXCEPT !.multiple_of = Some(1)]}

LeafValues == {JBool(TRUE), JStr(<<>>), JStr(<<"a">>), JInt(1)}

StringValues ==
  {JStr(s) : s \in SeqsUpTo(Chars, MaxLen)}
    \cup {JNull, JBool(FALSE), JInt(1), JArr(<<>>), JObj({})}

NumberValues ==
  {JInt(i) : i \in I64_MIN..(I64_MAX + 1)}
    \cup {JFloat(h) : h \in F64Bounds}
    \cup {JNull, JStr(<<"a">>)}

ArrayValues ==
  {JArr(a) : a \in SeqsUpTo(LeafValues, MaxLen)}
    \cup {JNull, JStr(<<"a">>), JObj({})}

\* the maps over Names: each name absent or bound to a leaf value
ObjectValues ==
  {JObj({<<k, f[k]>> : k \in D}) : f \in [Names -> LeafValues], D \in SUBSET Names}
    \cup {JNull, JStr(<<"a">>), JArr(<<>>)}

DefinitionIds == {"def1", "def2"}
InputDescriptors == {[id |-> "d1"], [id |-> "d2"]}
ClaimFormats == {"jwt_vp", "jwt_vc"}
\* DescriptorMap: id, claim format, locator
DescriptorMaps ==
  {[id |-> i, format |-> "jwt_vc", path |-> q] : i \in {"d1", "d2"}, q \in {"$", "$.vc"}}
VpTokens == {"garbage", "vp_all", "vp_d1"}
\* most input descriptors of a definition, most entries of a descriptor map
MaxDescriptors == 2
MaxEntries == 2

NoResponse ==
  [variant |-> "None", vp_token |-> "", definition_id |-> "",
   descriptor_map |-> <<>>]
Jwt(jwt) == [NoResponse EXCEPT !.variant = "Jwt", !.vp_token = jwt]
Unencoded(vp_token, definition_id, descriptor_map) ==
  [variant |-> "Unencoded", vp_token |-> vp_token,
   definition_id |-> definition_id, descriptor_map |-> descriptor_map]

AuthorizationResponses ==
  {Jwt(j) : j \in {"garbage", "vp_all"}}
    \cup {Unencoded(tok, d, m) : tok \in VpTokens, d \in DefinitionIds,
                                 m \in SeqsUpTo(DescriptorMaps, MaxEntries)}

(***************************************************************************)
(* Operations.  A validator (a definition) is built by the chained         *)
(* builder calls and then validated against one value (one response).      *)
(***************************************************************************)
NoBuilt == [id |-> "", descriptors |-> <<>>]
NoComparison == [done |-> FALSE, other |-> new("Boolean"), equal |-> FALSE]

SchemaIdle ==
  /\ definition = pd_default
  /\ response = NoResponse
  /\ outcome = NoOutcome
  /\ built = NoBuilt

AuthIdle ==
  /\ validator = new("Boolean")
  /\ value = JNull
  /\ result = NoResult
  /\ comparison = NoComparison

Build(v) ==
  /\ result = NoResult
  /\ ~comparison.done
  /\ validator' = v
  /\ UNCHANGED <<value, result, definition, response, outcome, built,
                 comparison>>

set_schema_type(Types) ==
  \E ty \in Types : Build([validator EXCEPT !.schema_type = ty])

set_min_length ==
  \E n \in Lengths : Build([validator EXCEPT !.min_length = Some(n)])

set_max_length ==
  \E n \in Lengths : Build([validator EXCEPT !.max_length = Some(n)])

set_pattern ==
  \E p \in Patterns : Build([validator EXCEPT !.pattern = Some(p)])

set_minimum ==
  \E x \in F64Bounds : Build([validator EXCEPT !.minimum = Some(x)])

set_maximum ==
  \E x \in F64Bounds : Build([validator EXCEPT !.maximum = Some(x)])

set_exclusive_minimum ==
  \E x \in F64Bounds : Build([validator EXCEPT !.exclusive_minimum = Some(x)])

set_exclusive_maximum ==
  \E x \in F64Bounds : Build([validator EXCEPT !.exclusive_maximum = Some(x)])

set_multiple_of ==
  \E x \in MultipleOfs : Build([validator EXCEPT !.multiple_of = Some(x)])

add_required ==
  /\ Len(validator.required) < MaxRequired
  /\ \E k \in Names : Build([validator EXCEPT !.required = Append(@, k)])

add_property ==
  \E k \in Names, s \in LeafSchemas :
    Build([validator EXCEPT
             !.properties = {q \in @ : q[1] /= k} \cup {<<k, s>>}])

set_items ==
  \E s \in LeafSchemas : Build([validator EXCEPT !.items = Some(s)])

Validate(Values) ==
  /\ result = NoResult
  /\ \E v \in Values, ord \in Orders :
       /\ value' = v
       /\ result' = validate(validator, v, ord)
  /\ UNCHANGED <<validator, definition, response, outcome, built, comparison>>

\* v.clone(), and the clone after one more numeric builder call
Variants(v) ==
  {v}
    \cup {[v EXCEPT !.minimum = Some(x)] : x \in F64Bounds}
    \cup {[v EXCEPT !.maximum = Some(x)] : x \in F64Bounds}
    \cup {[v EXCEPT !.exclusive_minimum = Some(x)] : x \in F64Bounds}
    \cup {[v EXCEPT !.exclusive_maximum = Some(x)] : x \in F64Bounds}
    \cup {[v EXCEPT !.multiple_of = Some(x)] : x \in MultipleOfs}

\* validator == other, for another validator derived from it
Compare ==
  /\ ~comparison.done
  /\ \E o \in Variants(validator) :
       comparison' = [done |-> TRUE, other |-> o, equal |-> eq(validator, o)]
  /\ UNCHANGED <<validator, value, result, definition, response, outcome,
                 built>>

BuildDefinition(d) ==
  /\ outcome = NoOutcome
  /\ definition' = d
  /\ UNCHANGED <<validator, value, result, response, outcome, comparison>>

\* add_input_descriptors with the descriptor put at the front of the list
\* (insert(0, ..) for push)
add_input_descriptors_front ==
  /\ Len(definition.input_descriptors) < MaxDescriptors
  /\ \E d \in InputDescriptors :
       /\ BuildDefinition([definition EXCEPT !.input_descriptors = <<d>> \o @])
       /\ built' = [built EXCEPT !.descriptors = Append(@, d)]

add_input_descriptors ==
  /\ Len(definition.input_descriptors) < MaxDescriptors
  /\ \E d \in InputDescriptors :
       /\ BuildDefinition([definition EXCEPT !.input_descriptors = Append(@, d)])
       /\ built' = [built EXCEPT !.descriptors = Append(@, d)]

set_name ==
  /\ BuildDefinition([definition EXCEPT !.name = Some("DID Key Identity Verification")])
  /\ UNCHANGED built

set_purpose ==
  /\ BuildDefinition([definition EXCEPT !.purpose = Some("Check your identity key")])
  /\ UNCHANGED built

set_format ==
  /\ BuildDefinition([definition EXCEPT !.format = Some({<<"jwt_vp", "ES256">>})])
  /\ UNCHANGED built

add_format ==
  /\ \E f \in ClaimFormats :
       BuildDefinition(
         [definition EXCEPT
            !.format = Some({q \in (IF is_some(@) THEN unwrap(@) ELSE {}) : q[1] /= f}
                              \cup {<<f, "ES256">>})])
  /\ UNCHANGED built

ValidateAuthorizationResponse ==
  /\ outcome = NoOutcome
  /\ \E r \in AuthorizationResponses :
       /\ response' = r
       /\ outcome' = validate_authorization_response(definition, r)
  /\ UNCHANGED <<validator, value, result, definition, built, comparison>>

(***************************************************************************)
(* Specifications, one per family of validators                            *)
(***************************************************************************)
InitSchema(Types) ==
  /\ validator \in {new(ty) : ty \in Types}
  /\ value = JNull
  /\ result = NoResult
  /\ comparison = NoComparison
  /\ SchemaIdle

InitString == InitSchema({"String", "Boolean"})
NextString ==
  \/ set_schema_type({"String", "Boolean"})
  \/ set_min_length
  \/ set_max_length
  \/ set_pattern
  \/ Validate(StringValues)
SpecString == InitString /\ [][NextString]_vars

InitNumber == InitSchema({"Number", "Integer"})
NextNumber ==
  \/ set_minimum
  \/ set_maximum
  \/ set_exclusive_minimum
  \/ set_exclusive_maximum
  \/ set_multiple_of
  \/ Validate(NumberValues)
SpecNumber == InitNumber /\ [][NextNumber]_vars

InitArray == InitSchema({"Array"})
NextArray ==
  \/ set_min_length
  \/ set_max_length
  \/ set_items
  \/ Validate(ArrayValues)
SpecArray == InitArray /\ [][NextArray]_vars

InitObject == InitSchema({"Object"})
NextObject ==
  \/ add_required
  \/ add_property
  \/ Validate(ObjectValues)
SpecObject == InitObject /\ [][NextObject]_vars

InitEq == InitSchema({"Number", "Integer"})
NextEq ==
  \/ set_minimum
  \/ set_exclusive_minimum
  \/ set_exclusive_maximum
  \/ set_multiple_of
  \/ Compare
  \/ Validate(NumberValues)
SpecEq == InitEq /\ [][NextEq]_vars

InitAuth ==
  /\ \E i \in DefinitionIds, d \in InputDescriptors :
       /\ definition = pd_new(i, d)
       /\ built = [id |-> i, descriptors |-> <<d>>]
  /\ response = NoResponse
  /\ outcome = NoOutcome
  /\ AuthIdle
NextAuth ==
  \/ add_input_descriptors
  \/ set_name
  \/ set_purpose
  \/ set_format
  \/ add_format
  \/ ValidateAuthorizationResponse
SpecAuth == InitAuth /\ [][NextAuth]_vars

(***************************************************************************)
(* Claims                                                                  *)
(***************************************************************************)
Validated == result /= NoResult
Answered == outcome /= NoOutcome

\* C1: SchemaValidator::validate is total and never panics: whatever the
\* schema and the value, the call returns Ok or Err.
C1_ValidateNeverPanics ==
  Validated => result.tag \in {"Ok", "Err"}

\* C2: a String schema with a pattern accepts a value only if the pattern is
\* a valid regular expression and the validated string matches it.
C2_PatternMatchesValue ==
  (/\ Validated
   /\ validator.schema_type = "String"
   /\ is_some(validator.pattern)
   /\ result.tag = "Ok")
    => /\ value.kind = "str"
       /\ Regex_new_ok(unwrap(validator.pattern))
       /\ is_match(unwrap(validator.pattern), value.s)

\* the last entry of descriptor map m that carries id i is at index k
LastEntryFor(m, i, k) ==
  /\ m[k].id = i
  /\ \A j \in (k + 1)..Len(m) : m[j].id /= i

\* every input descriptor has an entry in the response's descriptor map (the
\* one the map keeps for its id) on which validate_verifiable_presentation
\* succeeds
EveryDescriptorSatisfied ==
  \A n \in 1..Len(definition.input_descriptors) :
    \E k \in 1..Len(response.descriptor_map) :
      /\ LastEntryFor(response.descriptor_map,
                      definition.input_descriptors[n].id, k)
      /\ validate_verifiable_presentation(
           definition.input_descriptors[n],
           unwrap(decode_unverified(response.vp_token)),
           response.descriptor_map[k])

\* C3: for an Unencoded response validate_authorization_response returns Ok
\* if and only if the vp token decodes, the submission's definition id is
\* the definition's id, and every input descriptor has a descriptor-map
\* entry with its id on which validate_verifiable_presentation succeeds;
\* otherwise it returns Err: a descriptor without an entry is never skipped
\* and there is no third outcome.
C3_UnencodedOkIffAllDescriptorsPass ==
  (Answered /\ response.variant = "Unencoded")
    => /\ outcome.tag \in {"Ok", "Err"}
       /\ outcome.tag = "Ok"
            <=> /\ is_some(decode_unverified(response.vp_token))
                /\ response.definition_id = definition.id
                /\ EveryDescriptorSatisfied

\* C3 witness: the first input descriptor has a passing entry, the second
\* has no entry at all, and the call failed.
C3_Witness ==
  /\ Answered
  /\ response.variant = "Unencoded"
  /\ is_some(decode_unverified(response.vp_token))
  /\ response.definition_id = definition.id
  /\ Len(definition.input_descriptors) = 2
  /\ Len(outcome.calls) = 1
  /\ \A k \in 1..Len(response.descriptor_map) :
       response.descriptor_map[k].id /= definition.input_descriptors[2].id
  /\ outcome.tag = "Err"

\* C4: with the Jwt variant validate_authorization_response returns an
\* error for every definition and payload, and examines no input descriptor.
C4_JwtAlwaysFails ==
  (Answered /\ response.variant = "Jwt")
    => /\ outcome.tag = "Err"
       /\ outcome.lookups = <<>>
       /\ outcome.calls = <<>>

\* C4 witness: a Jwt response whose payload would decode was refused.
C4_Witness ==
  /\ Answered
  /\ response.variant = "Jwt"
  /\ is_some(decode_unverified(response.vp_token))
  /\ outcome.tag = "Err"

\* C5: an Unencoded response whose submission names another definition id
\* fails before any descriptor is examined: no descriptor-map lookup and no
\* validate_verifiable_presentation call is made, whatever the map holds.
C5_IdMismatchFailsFirst ==
  (/\ Answered
   /\ response.variant = "Unencoded"
   /\ response.definition_id /= definition.id)
    => /\ outcome.tag = "Err"
       /\ outcome.lookups = <<>>
       /\ outcome.calls = <<>>

\* C5 witness: the id differs while the token decodes and every input
\* descriptor has a passing entry in the descriptor map.
C5_Witness ==
  /\ Answered
  /\ response.variant = "Unencoded"
  /\ response.definition_id /= definition.id
  /\ is_some(decode_unverified(response.vp_token))
  /\ EveryDescriptorSatisfied
  /\ outcome.tag = "Err"

\* C6: a String schema without a pattern accepts a value if and only if it
\* is a string longer than min_length (when set) and shorter than
\* max_length (when set); a length equal to either bound is rejected.
C6_StringLengthStrict ==
  (/\ Validated
   /\ validator.schema_type = "String"
   /\ ~is_some(validator.pattern))
    => (result.tag = "Ok"
          <=> /\ value.kind = "str"
              /\ is_some(validator.min_length)
                   => Len(value.s) > unwrap(validator.min_length)
              /\ is_some(validator.max_length)
                   => Len(value.s) < unwrap(validator.max_length))

\* C6 witness: a string exactly min_length long, below max_length, rejected.
C6_Witness ==
  /\ Validated
  /\ validator.schema_type = "String"
  /\ ~is_some(validator.pattern)
  /\ is_some(validator.min_length)
  /\ ~is_some(validator.max_length)
  /\ value.kind = "str"
  /\ Len(value.s) = unwrap(validator.min_length)
  /\ Len(value.s) > 0
  /\ result.tag = "Err"

\* what the item validator answers on element k of the validated array
ItemResult(k) ==
  validate(unwrap(validator.items), value.arr[k], <<"a", "b">>)

ArrayWithinBounds ==
  /\ value.kind = "arr"
  /\ is_some(validator.min_length)
       => unwrap(validator.min_length) <= Len(value.arr)
  /\ is_some(validator.max_length)
       => Len(value.arr) <= unwrap(validator.max_length)

\* C7: an Array schema accepts a value if and only if it is an array within
\* the inclusive length bounds all of whose elements the item validator
\* (when set) accepts; when an element is rejected, the failure reported is
\* that of the lowest-index rejected element, tagged with its index.
C7_ArrayContract ==
  (Validated /\ validator.schema_type = "Array")
    => /\ result.tag = "Ok"
            <=> /\ ArrayWithinBounds
                /\ is_some(validator.items)
                     => \A k \in 1..Len(value.arr) : ItemResult(k).tag = "Ok"
       /\ (/\ ArrayWithinBounds
           /\ is_some(validator.items)
           /\ \E k \in 1..Len(value.arr) : ItemResult(k).tag = "Err")
            => LET k == CHOOSE k \in 1..Len(value.arr) :
                          /\ ItemResult(k).tag = "Err"
                          /\ \A j \in 1..(k - 1) : ItemResult(j).tag /= "Err"
               IN  /\ result.tag = "Err"
                   /\ result.err = <<Crumb("Error in array item", k - 1, "")>>
                                     \o ItemResult(k).err

\* C7, where it holds: the same contract in every run in which the item
\* validator returns for each element (none of its calls panics).
C7_ArrayContractWhenItemsReturn ==
  (/\ Validated
   /\ validator.schema_type = "Array"
   /\ is_some(validator.items)
        => \A k \in 1..Len(value.arr) : ItemResult(k).tag /= "Panic")
    => C7_ArrayContract

\* C8: an Object schema accepts a value if and only if it is an object that
\* has every required name as a key and whose declared properties, where
\* present, are accepted by their validators; an absent declared property
\* is not validated and a required one without a validator need only be
\* present.
C8_ObjectContract ==
  (Validated /\ validator.schema_type = "Object")
    => (result.tag = "Ok"
          <=> /\ value.kind = "obj"
              /\ \A k \in 1..Len(validator.required) :
                   \E q \in value.obj : q[1] = validator.required[k]
              /\ \A d \in validator.properties :
                   \A q \in value.obj :
                     q[1] = d[1] => validate(d[2], q[2], <<"a", "b">>).tag = "Ok")

\* C8 witness: required = ["a"] with no validator declared for "a" accepts
\* {"a": 1}, while "b", declared and absent, is not validated.
C8_Witness ==
  /\ Validated
  /\ validator.schema_type = "Object"
  /\ validator.required = <<"a">>
  /\ \E s \in LeafSchemas : validator.properties = {<<"b", s>>}
  /\ value = JObj({<<"a", JInt(1)>>})
  /\ result.tag = "Ok"

\* C9: all four bounds of a Number schema are strict: an accepted number is
\* greater than minimum and exclusive_minimum and less than maximum and
\* exclusive_maximum, for each that is set.
C9_NumberBoundsStrict ==
  (/\ Validated
   /\ validator.schema_type = "Number"
   /\ result.tag = "Ok")
    => /\ is_some(as_f64(value))
       /\ is_some(validator.minimum)
            => unwrap(as_f64(value)) > unwrap(validator.minimum)
       /\ is_some(validator.maximum)
            => unwrap(as_f64(value)) < unwrap(validator.maximum)
       /\ is_some(validator.exclusive_minimum)
            => unwrap(as_f64(value)) > unwrap(validator.exclusive_minimum)
       /\ is_some(validator.exclusive_maximum)
            => unwrap(as_f64(value)) < unwrap(validator.exclusive_maximum)

\* C10: with multiple_of unset, an Integer schema accepts a value that fits
\* an i64 if and only if the Number schema with the same bounds accepts it.
C10_IntegerBoundsAsNumber ==
  (/\ Validated
   /\ validator.schema_type = "Integer"
   /\ ~is_some(validator.multiple_of)
   /\ is_some(as_i64(value)))
    => (result.tag = "Ok" <=> validate_number(validator, value).tag = "Ok")

\* C11: after new(id, d0) and any chain of add_input_descriptors, set_name,
\* set_purpose, set_format and add_format, the input descriptor list is
\* non-empty, starts with d0 and holds exactly the descriptors given, in
\* the order given, and the id is the one given.
C11_HoldsWhatWasGiven ==
  /\ definition.id = built.id
  /\ definition.input_descriptors = built.descriptors
  /\ Len(definition.input_descriptors) >= 1

\* C11: a builder call changes one field only: no call changes the id, and
\* a call that changes name, purpose or format leaves the input descriptor
\* list and the other two alone.
C11_OneFieldPerCall ==
  /\ definition'.id = definition.id
  /\ definition'.input_descriptors /= definition.input_descriptors
       => /\ definition'.name = definition.name
          /\ definition'.purpose = definition.purpose
          /\ definition'.format = definition.format
  /\ definition'.name /= definition.name
       => /\ definition'.purpose = definition.purpose
          /\ definition'.format = definition.format
  /\ definition'.purpose /= definition.purpose
       => definition'.format = definition.format

\* C11: both parts, in every run of the builder.
C11_BuilderAccumulates ==
  []C11_HoldsWhatWasGiven /\ [][C11_OneFieldPerCall]_vars

\* C11 witness: two different descriptors were given and every optional
\* field was set, the format by set_format and then add_format.
C11_Witness ==
  /\ Len(definition.input_descriptors) = 2
  /\ definition.input_descriptors[1] /= definition.input_descriptors[2]
  /\ is_some(definition.name)
  /\ is_some(definition.purpose)
  /\ is_some(definition.format)
  /\ Cardinality(unwrap(definition.format)) = 2

\* the entries of descriptor map m from index k on that are the last of
\* their id and whose id is in ids
RECURSIVE LastEntriesOf(_, _, _)
LastEntriesOf(m, k, ids) ==
  IF k > Len(m) THEN <<>>
  ELSE IF m[k].id \in ids /\ LastEntryFor(m, m[k].id, k)
  THEN <<m[k]>> \o LastEntriesOf(m, k + 1, ids)
  ELSE LastEntriesOf(m, k + 1, ids)

DescriptorIds ==
  {definition.input_descriptors[n].id : n \in 1..Len(definition.input_descriptors)}

\* C12: when several descriptor-map entries carry the same id, the input
\* descriptor of that id is checked against the last of them only; the
\* earlier ones, and the entries whose id is no input descriptor's, have no
\* effect: the call answers as it does on the response without them.
C12_LastEntryWins ==
  (Answered /\ response.variant = "Unencoded")
    => /\ \A c \in 1..Len(outcome.calls) :
            \E k \in 1..Len(response.descriptor_map) :
              /\ LastEntryFor(response.descriptor_map, outcome.calls[c][1], k)
              /\ outcome.calls[c][2] = response.descriptor_map[k]
       /\ outcome = validate_authorization_response(
                      definition,
                      [response EXCEPT
                         !.descriptor_map = LastEntriesOf(@, 1, DescriptorIds)])

\* C12 witness: two entries carry an input descriptor's id, the first would
\* pass and the last does not, and the call failed on the last.
C12_Witness ==
  /\ Answered
  /\ response.variant = "Unencoded"
  /\ is_some(decode_unverified(response.vp_token))
  /\ response.definition_id = definition.id
  /\ Len(response.descriptor_map) = 2
  /\ response.descriptor_map[1].id = definition.input_descriptors[1].id
  /\ response.descriptor_map[2].id = definition.input_descriptors[1].id
  /\ validate_verifiable_presentation(
       definition.input_descriptors[1],
       unwrap(decode_unverified(response.vp_token)),
       response.descriptor_map[1])
  /\ ~validate_verifiable_presentation(
       definition.input_descriptors[1],
       unwrap(decode_unverified(response.vp_token)),
       response.descriptor_map[2])
  /\ outcome.tag = "Err"
  /\ outcome.calls =
       <<<<definition.input_descriptors[1].id, response.descriptor_map[2]>>>>

\* C13: equality of SchemaValidators is behavioural: two validators that
\* compare equal give the same outcome on every value, and validators that
\* differ in exclusive_minimum, exclusive_maximum or multiple_of do not
\* compare equal.
C13_EqualityIsBehavioural ==
  (comparison.done /\ comparison.equal /\ Validated)
    => /\ validate(comparison.other, value, <<"a", "b">>).tag = result.tag
       /\ comparison.other.exclusive_minimum = validator.exclusive_minimum
       /\ comparison.other.exclusive_maximum = validator.exclusive_maximum
       /\ comparison.other.multiple_of = validator.multiple_of

\* C13: the first half alone, two equal validators disagreeing on a value.
C13_EqualValidatorsAgree ==
  (comparison.done /\ comparison.equal /\ Validated)
    => validate(comparison.other, value, <<"a", "b">>).tag = result.tag

====
